---------------------------- MODULE Spec2Model ----------------------------
(***************************************************************************)
(* Model of src/nix/instrumented_builder.rs (lorri): the two-phase build   *)
(* orchestrator `run`, the phase-1 function `instrumented_instantiation`,  *)
(* the stderr fold, and the line classifier `parse_evaluation_line`.       *)
(*                                                                         *)
(* Text is modelled by TLA+ strings; an OsStr is a record holding its      *)
(* bytes as a string and whether those bytes decode as UTF-8.              *)
(***************************************************************************)
EXTENDS Integers, Sequences, FiniteSets, TLC

VARIABLES
    pc,             \* position of the one thread that executes run()
    gc_root_dir,    \* the phase-1 tempfile::TempDir: "none" | "alive" | "released"
    spawned,        \* number of nix-instantiate processes spawned so far
    output,         \* Option of the std::process::Output of phase 1
    stderr_results, \* Vec<LogDatum> parsed from output.stderr
    produced_drvs,  \* Vec1<StorePath> parsed from output.stdout
    idx,            \* number of elements of stderr_results the fold has consumed
    paths,          \* fold accumulator: Vec<PathBuf>
    output_paths,   \* fold accumulator: OutputPaths<Option<DrvFile>>
    log_lines,      \* fold accumulator: Vec<OsString>
    inst_info,      \* value returned by instrumented_instantiation
    realize_calls,  \* arguments of the ::nix::CallOpts::file(..).path() calls made
    realized,       \* value returned by the realize call
    outcome,        \* how run() ended
    line,           \* classifier harness: the line handed to parse_evaluation_line
    datum,          \* classifier harness: what parse_evaluation_line returned
    self,           \* OutputPaths harness: the OutputPaths<T> a method is called on
    f,              \* OutputPaths harness: the function handed to map / map_res
    method,         \* OutputPaths harness: the method that was called
    calls,          \* OutputPaths harness: the arguments f was applied to, in order
    shell_u,        \* OutputPaths harness: the image of self.shell inside map_res
    returned        \* OutputPaths harness: what the method returned

vars == <<pc, gc_root_dir, spawned, output, stderr_results, produced_drvs, idx,
          paths, output_paths, log_lines, inst_info, realize_calls, realized,
          outcome, line, datum, self, f, method, calls, shell_u, returned>>

runVars == <<pc, gc_root_dir, spawned, output, stderr_results, produced_drvs, idx,
             paths, output_paths, log_lines, inst_info, realize_calls, realized,
             outcome>>

mapVars == <<self, f, method, calls, shell_u, returned>>

---------------------------------------------------------------------------
(* Option<T> *)
None == [tag |-> "None"]
Some(v) == [tag |-> "Some", v |-> v]

(* OsStr / OsString: raw bytes, which may or may not be valid UTF-8 *)
Utf8(s) == [utf8 |-> TRUE, bytes |-> s]
NonUtf8(s) == [utf8 |-> FALSE, bytes |-> s]

\* faulty variant: a lossy conversion, which yields text for every line
ToStrLossy(l) == Some(l.bytes)

(* OsStr::to_str *)
ToStr(l) == IF l.utf8 THEN Some(l.bytes) ELSE None

---------------------------------------------------------------------------
\* Regular expressions of parse_evaluation_line. Every pattern is anchored
\* with ^ and $, and its wildcard groups are greedy.

StartsWith(s, p) == Len(s) >= Len(p) /\ SubSeq(s, 1, Len(p)) = p
EndsWith(s, p) == Len(s) >= Len(p) /\ SubSeq(s, Len(s) - Len(p) + 1, Len(s)) = p

\* ^pre(.*)suf$ : the capture, or None
Capture1(s, pre, suf) ==
    IF Len(s) >= Len(pre) + Len(suf) /\ StartsWith(s, pre) /\ EndsWith(s, suf)
    THEN Some(SubSeq(s, Len(pre) + 1, Len(s) - Len(suf)))
    ELSE None

\* positions at which mid may sit in a match of ^pre(.*)mid(.*)suf$
MidPositions(s, pre, mid, suf) ==
    { i \in (Len(pre) + 1)..(Len(s) - Len(suf) - Len(mid) + 1) :
        SubSeq(s, i, i + Len(mid) - 1) = mid }

Max(S) == CHOOSE m \in S : \A n \in S : n <= m
Min(S) == CHOOSE m \in S : \A n \in S : m <= n

\* faulty variant: the first group is lazy, it ends at the first mid
Capture2Lazy(s, pre, mid, suf) ==
    IF StartsWith(s, pre) /\ EndsWith(s, suf) /\ MidPositions(s, pre, mid, suf) # {}
    THEN LET i == Min(MidPositions(s, pre, mid, suf))
         IN  Some([first  |-> SubSeq(s, Len(pre) + 1, i - 1),
                   second |-> SubSeq(s, i + Len(mid), Len(s) - Len(suf))])
    ELSE None

\* ^pre(.*)mid(.*)suf$ : both captures, the first one greedy, or None
Capture2(s, pre, mid, suf) ==
    IF StartsWith(s, pre) /\ EndsWith(s, suf) /\ MidPositions(s, pre, mid, suf) # {}
    THEN LET i == Max(MidPositions(s, pre, mid, suf))
         IN  Some([first  |-> SubSeq(s, Len(pre) + 1, i - 1),
                   second |-> SubSeq(s, i + Len(mid), Len(s) - Len(suf))])
    ELSE None

\* "^evaluating file '(?P<source>.*)'$"
EVAL_FILE(s) == Capture1(s, "evaluating file '", "'")

\* "^copied source '(?P<source>.*)' -> '(?:.*)'$"
COPIED_SOURCE(s) ==
    LET m == Capture2(s, "copied source '", "' -> '", "'")
    IN  IF m = None THEN None ELSE Some(m.v.first)

\* "^trace: lorri read: '(?P<source>.*)'$"
LORRI_READ(s) == Capture1(s, "trace: lorri read: '", "'")

\* faulty variant: the drv group takes any path, not only one under /nix/store/
LORRI_ATTR_ANY(s) ==
    LET m == Capture2(s, "trace: lorri attribute: '", "' -> '", "'")
    IN  IF m = None THEN None
        ELSE Some([attribute |-> m.v.first, drv |-> m.v.second])

\* "^trace: lorri attribute: '(?P<attribute>.*)' -> '(?P<drv>/nix/store/.*)'$"
LORRI_ATTR_DRV(s) ==
    LET m == Capture2(s, "trace: lorri attribute: '", "' -> '/nix/store/", "'")
    IN  IF m = None THEN None
        ELSE Some([attribute |-> m.v.first, drv |-> "/nix/store/" \o m.v.second])

---------------------------------------------------------------------------
(* enum LogDatum; Panic is the unwinding panic of the unknown-attribute arm *)
Source(p) == [tag |-> "Source", path |-> p]
ShellDrv(p) == [tag |-> "ShellDrv", path |-> p]
ShellGcRootDrv(p) == [tag |-> "ShellGcRootDrv", path |-> p]
Text(l) == [tag |-> "Text", line |-> l]
Panic(what) == [tag |-> "Panic", what |-> what]

(* faulty variant: an unrecognised attribute falls through to the shell arm *)
AttrDispatchFallThrough(attr, drv) ==
    CASE attr = "shell_gc_root" -> ShellGcRootDrv(drv)
      [] OTHER -> ShellDrv(drv)

(* the `match attr` of parse_evaluation_line *)
AttrDispatch(attr, drv) ==
    CASE attr = "shell" -> ShellDrv(drv)
      [] attr = "shell_gc_root" -> ShellGcRootDrv(drv)
      [] OTHER -> Panic("unknown attribute")

(* fn parse_evaluation_line(line: &OsStr) -> LogDatum *)
parse_evaluation_line(l) ==
    IF ToStr(l) = None THEN Text(l)
    ELSE LET linestr == ToStr(l).v IN
         IF EVAL_FILE(linestr) # None THEN Source(EVAL_FILE(linestr).v)
         ELSE IF COPIED_SOURCE(linestr) # None THEN Source(COPIED_SOURCE(linestr).v)
         ELSE IF LORRI_READ(linestr) # None THEN Source(LORRI_READ(linestr).v)
         ELSE IF LORRI_ATTR_DRV(linestr) # None
              THEN AttrDispatch(LORRI_ATTR_DRV(linestr).v.attribute,
                                LORRI_ATTR_DRV(linestr).v.drv)
         ELSE Text(l)

---------------------------------------------------------------------------
(* Bounds and input universes of the orchestrator model *)

MaxLines == 4       \* longest stderr stream the phase-1 subprocess emits here

SrcA == Utf8("evaluating file '/a'")
SrcB == Utf8("copied source '/b' -> '/nix/store/b'")
ShellS == Utf8("trace: lorri attribute: 'shell' -> '/nix/store/s.drv'")
ShellT == Utf8("trace: lorri attribute: 'shell' -> '/nix/store/t.drv'")
GcRootG == Utf8("trace: lorri attribute: 'shell_gc_root' -> '/nix/store/g.drv'")
OtherO == Utf8("trace: lorri attribute: 'other' -> '/nix/store/o.drv'")
TextE == Utf8("error: boom")
BadB == NonUtf8("evaluating file '/x?'")   \* ? stands for a byte that is no UTF-8

StderrLines == {SrcA, SrcB, ShellS, ShellT, GcRootG, OtherO, TextE, BadB}

SeqsUpTo(S, n) == UNION { [1..k -> S] : k \in 0..n }

StderrStreams == SeqsUpTo(StderrLines, MaxLines)
StdoutStreams == { <<>>, <<Utf8("")>>, <<Utf8("/nix/store/d.drv"), Utf8("")>> }
ExitStatuses == {0, 1}
RealizedPaths == {"/nix/store/out"}

---------------------------------------------------------------------------
(* Values of the result model *)

StorePath(p) == [tag |-> "StorePath", path |-> p]
DrvFile(p) == [tag |-> "DrvFile", path |-> p]
OutputPaths(a, b) == [tag |-> "OutputPaths", shell |-> a, shell_gc_root |-> b]

(* struct Success<T>, struct Failure, enum Info<T> *)
Success(op, drvs, ps) ==
    [tag |-> "Success", output_paths |-> op, drvs |-> drvs, paths |-> ps]
Failure(status, lines) ==
    [tag |-> "Failure", exec_result |-> status, log_lines |-> lines]
NoInfo == [tag |-> "NoInfo"]

(* how run() ended: still running, Ok(Info), Err(Error::..), or a panic *)
Running == [tag |-> "Running"]
Ok(info) == [tag |-> "Ok", info |-> info]
Err(e) == [tag |-> "Err", error |-> e]

(* faulty variant: any status the process reported counts as success *)
StatusSuccessAnyCode(status) == status >= 0

(* ExitStatus::success *)
StatusSuccess(status) == status = 0

(* ::nix::parse_nix_output keeps the non-empty lines, in order, and maps *)
(* the parser over them                                                   *)
NonEmptyLines(lines) == SelectSeq(lines, LAMBDA l : l.bytes # "")

(* StorePath::from(&OsStr) *)
StorePathFrom(l) == StorePath(l.bytes)

(* ::nix::parse_nix_output(&output.stderr, |line| parse_evaluation_line(line)) *)
ParseStderrLines(stderr) ==
    [i \in 1..Len(NonEmptyLines(stderr)) |-> parse_evaluation_line(NonEmptyLines(stderr)[i])]

(* ::nix::parse_nix_output(&output.stdout, StorePath::from) *)
ParseStdoutLines(stdout) ==
    [i \in 1..Len(NonEmptyLines(stdout)) |-> StorePathFrom(NonEmptyLines(stdout)[i])]

(* the panics a Vec<LogDatum> holds, in order: the first one unwinds *)
FirstPanic(results) ==
    LET bad == { i \in 1..Len(results) : results[i].tag = "Panic" }
    IN  IF bad = {} THEN None ELSE Some(results[Min(bad)])

---------------------------------------------------------------------------
(* faulty variant: text lines are pushed to the front of log_lines *)
FoldClosurePrependText(acc, result) ==
    CASE result.tag = "Source" ->
           [acc EXCEPT !.paths = Append(@, result.path)]
      [] result.tag = "ShellDrv" ->
           IF acc.output_paths.shell = None
           THEN [acc EXCEPT !.output_paths.shell = Some(DrvFile(result.path))]
           ELSE Panic("shell a second time")
      [] result.tag = "ShellGcRootDrv" ->
           IF acc.output_paths.shell_gc_root = None
           THEN [acc EXCEPT !.output_paths.shell_gc_root = Some(DrvFile(result.path))]
           ELSE Panic("shell_gc_root a second time")
      [] result.tag = "Text" ->
           [acc EXCEPT !.log_lines = <<result.line>> \o @]

(* faulty variant: a later attribute line overwrites the slot instead of panicking *)
FoldClosureOverwrite(acc, result) ==
    CASE result.tag = "Source" ->
           [acc EXCEPT !.paths = Append(@, result.path)]
      [] result.tag = "ShellDrv" ->
           [acc EXCEPT !.output_paths.shell = Some(DrvFile(result.path))]
      [] result.tag = "ShellGcRootDrv" ->
           [acc EXCEPT !.output_paths.shell_gc_root = Some(DrvFile(result.path))]
      [] result.tag = "Text" ->
           [acc EXCEPT !.log_lines = Append(@, result.line)]

(* faulty variant: a source path already in the list is not pushed again *)
FoldClosureDedup(acc, result) ==
    CASE result.tag = "Source" ->
           IF \E i \in 1..Len(acc.paths) : acc.paths[i] = result.path
           THEN acc
           ELSE [acc EXCEPT !.paths = Append(@, result.path)]
      [] result.tag = "ShellDrv" ->
           IF acc.output_paths.shell = None
           THEN [acc EXCEPT !.output_paths.shell = Some(DrvFile(result.path))]
           ELSE Panic("shell a second time")
      [] result.tag = "ShellGcRootDrv" ->
           IF acc.output_paths.shell_gc_root = None
           THEN [acc EXCEPT !.output_paths.shell_gc_root = Some(DrvFile(result.path))]
           ELSE Panic("shell_gc_root a second time")
      [] result.tag = "Text" ->
           [acc EXCEPT !.log_lines = Append(@, result.line)]

(* faulty variant: a source path is pushed to the log lines as well *)
FoldClosureSourceAlsoLogged(acc, result) ==
    CASE result.tag = "Source" ->
           [acc EXCEPT !.paths = Append(@, result.path),
                       !.log_lines = Append(@, Utf8(result.path))]
      [] result.tag = "ShellDrv" ->
           IF acc.output_paths.shell = None
           THEN [acc EXCEPT !.output_paths.shell = Some(DrvFile(result.path))]
           ELSE Panic("shell a second time")
      [] result.tag = "ShellGcRootDrv" ->
           IF acc.output_paths.shell_gc_root = None
           THEN [acc EXCEPT !.output_paths.shell_gc_root = Some(DrvFile(result.path))]
           ELSE Panic("shell_gc_root a second time")
      [] result.tag = "Text" ->
           [acc EXCEPT !.log_lines = Append(@, result.line)]

(* The closure of the fold over stderr_results, lines 86-115.  acc is the  *)
(* triple (paths, output_paths, log_lines); the result is the new triple   *)
(* or the panic of a second assignment.                                    *)
FoldClosure(acc, result) ==
    CASE result.tag = "Source" ->
           [acc EXCEPT !.paths = Append(@, result.path)]
      [] result.tag = "ShellDrv" ->
           IF acc.output_paths.shell = None
           THEN [acc EXCEPT !.output_paths.shell = Some(DrvFile(result.path))]
           ELSE Panic("shell a second time")
      [] result.tag = "ShellGcRootDrv" ->
           IF acc.output_paths.shell_gc_root = None
           THEN [acc EXCEPT !.output_paths.shell_gc_root = Some(DrvFile(result.path))]
           ELSE Panic("shell_gc_root a second time")
      [] result.tag = "Text" ->
           [acc EXCEPT !.log_lines = Append(@, result.line)]

(* faulty variant: only shell_gc_root is required, a missing shell borrows its path *)
RequiredOutputPathsLenient(op) ==
    CASE op.shell_gc_root = None -> Panic("never got shell_gc_root")
      [] OTHER -> OutputPaths(IF op.shell = None THEN op.shell_gc_root.v ELSE op.shell.v,
                              op.shell_gc_root.v)

(* the match on output_paths, lines 126-147 *)
RequiredOutputPaths(op) ==
    CASE op.shell = None -> Panic("never got shell")
      [] op.shell # None /\ op.shell_gc_root = None -> Panic("never got shell_gc_root")
      [] OTHER -> OutputPaths(op.shell.v, op.shell_gc_root.v)

---------------------------------------------------------------------------
(* The orchestrator: run() calling instrumented_instantiation()            *)

EmptyAcc == [tag |-> "Acc", paths |-> <<>>, output_paths |-> OutputPaths(None, None), log_lines |-> <<>>]
NoLine == Utf8("")
NoDatum == [tag |-> "NoDatum"]

NoResult == [tag |-> "NoResult"]

(* the OutputPaths harness at rest: no method has been called *)
MapIdle ==
    /\ self = OutputPaths(None, None)
    /\ f = <<>>
    /\ method = "none"
    /\ calls = <<>>
    /\ shell_u = None
    /\ returned = NoResult

Init ==
    /\ pc = "start"
    /\ gc_root_dir = "none"
    /\ spawned = 0
    /\ output = None
    /\ stderr_results = <<>>
    /\ produced_drvs = <<>>
    /\ idx = 0
    /\ paths = EmptyAcc.paths
    /\ output_paths = EmptyAcc.output_paths
    /\ log_lines = EmptyAcc.log_lines
    /\ inst_info = NoInfo
    /\ realize_calls = <<>>
    /\ realized = None
    /\ outcome = Running
    /\ line = NoLine
    /\ datum = NoDatum
    /\ MapIdle

(* run() returns Err(e) or unwinds with a panic: every local is dropped *)
Abort(how) ==
    /\ outcome' = how
    /\ pc' = "done"
    /\ gc_root_dir' = IF gc_root_dir = "alive" THEN "released" ELSE gc_root_dir

(* line 33: cas.file_from_string(..)? *)
CasFileFromString ==
    /\ pc = "start"
    /\ \E ok \in BOOLEAN :
         IF ok THEN /\ pc' = "cas_done"
                    /\ UNCHANGED <<gc_root_dir, outcome>>
               ELSE Abort(Err("Instantiate"))
    /\ UNCHANGED <<spawned, output, stderr_results, produced_drvs, idx, paths,
                   output_paths, log_lines, inst_info, realize_calls, realized,
                   line, datum, mapVars>>

(* line 36: tempfile::TempDir::new()? *)
TempDirNew ==
    /\ pc = "cas_done"
    /\ \E ok \in BOOLEAN :
         IF ok THEN /\ pc' = "tmp_done"
                    /\ gc_root_dir' = "alive"
                    /\ UNCHANGED outcome
               ELSE Abort(Err("Instantiate"))
    /\ UNCHANGED <<spawned, output, stderr_results, produced_drvs, idx, paths,
                   output_paths, log_lines, inst_info, realize_calls, realized,
                   line, datum, mapVars>>

(* line 63: cmd.spawn()? *)
Spawn ==
    /\ pc = "tmp_done"
    /\ \E ok \in BOOLEAN :
         IF ok THEN /\ pc' = "spawned"
                    /\ spawned' = spawned + 1
                    /\ UNCHANGED <<gc_root_dir, outcome>>
               ELSE /\ Abort(Err("Instantiate"))
                    /\ UNCHANGED spawned
    /\ UNCHANGED <<output, stderr_results, produced_drvs, idx, paths,
                   output_paths, log_lines, inst_info, realize_calls, realized,
                   line, datum, mapVars>>

(* faulty variant: when collecting the output fails, the command is spawned again *)
WaitWithOutputRetry ==
    /\ pc = "spawned"
    /\ \/ /\ \E st \in ExitStatuses, so \in StdoutStreams, se \in StderrStreams :
               output' = Some([status |-> st, stdout |-> so, stderr |-> se])
          /\ pc' = "exited"
          /\ UNCHANGED <<gc_root_dir, outcome>>
       \/ /\ spawned < 2
          /\ pc' = "tmp_done"
          /\ UNCHANGED <<gc_root_dir, outcome, output>>
       \/ /\ Abort(Err("Instantiate"))
          /\ UNCHANGED output
    /\ UNCHANGED <<spawned, stderr_results, produced_drvs, idx, paths,
                   output_paths, log_lines, inst_info, realize_calls, realized,
                   line, datum, mapVars>>

(* line 63: .wait_with_output()? : the whole of stdout and stderr, and the status *)
WaitWithOutput ==
    /\ pc = "spawned"
    /\ \/ /\ \E st \in ExitStatuses, so \in StdoutStreams, se \in StderrStreams :
               output' = Some([status |-> st, stdout |-> so, stderr |-> se])
          /\ pc' = "exited"
          /\ UNCHANGED <<gc_root_dir, outcome>>
       \/ /\ Abort(Err("Instantiate"))
          /\ UNCHANGED output
    /\ UNCHANGED <<spawned, stderr_results, produced_drvs, idx, paths,
                   output_paths, log_lines, inst_info, realize_calls, realized,
                   line, datum, mapVars>>

(* lines 65-66: every stderr line is classified; an unknown attribute panics *)
ParseStderr ==
    /\ pc = "exited"
    /\ LET results == ParseStderrLines(output.v.stderr) IN
         IF FirstPanic(results) # None
         THEN /\ Abort(FirstPanic(results).v)
              /\ UNCHANGED stderr_results
         ELSE /\ stderr_results' = results
              /\ pc' = "stderr_parsed"
              /\ UNCHANGED <<gc_root_dir, outcome>>
    /\ UNCHANGED <<spawned, output, produced_drvs, idx, paths,
                   output_paths, log_lines, inst_info, realize_calls, realized,
                   line, datum, mapVars>>

(* faulty variant: without a store path, a failing status is returned as Info::Failure *)
ParseStdoutAfterStatus ==
    /\ pc = "stderr_parsed"
    /\ LET drvs == ParseStdoutLines(output.v.stdout) IN
         IF drvs = <<>>
         THEN IF StatusSuccess(output.v.status)
              THEN /\ Abort(Panic("no store path in output"))
                   /\ UNCHANGED <<produced_drvs, inst_info>>
              ELSE /\ inst_info' = Failure(output.v.status, <<>>)
                   /\ pc' = "inst_returned"
                   /\ gc_root_dir' = "released"
                   /\ UNCHANGED <<produced_drvs, outcome>>
         ELSE /\ produced_drvs' = drvs
              /\ pc' = "fold"
              /\ UNCHANGED <<gc_root_dir, outcome, inst_info>>
    /\ UNCHANGED <<spawned, output, stderr_results, idx, paths,
                   output_paths, log_lines, realize_calls, realized,
                   line, datum, mapVars>>

(* lines 68-75: Vec1::from_vec(parse_nix_output(&output.stdout, ..)) or panic *)
ParseStdout ==
    /\ pc = "stderr_parsed"
    /\ LET drvs == ParseStdoutLines(output.v.stdout) IN
         IF drvs = <<>>
         THEN /\ Abort(Panic("no store path in output"))
              /\ UNCHANGED produced_drvs
         ELSE /\ produced_drvs' = drvs
              /\ pc' = "fold"
              /\ UNCHANGED <<gc_root_dir, outcome>>
    /\ UNCHANGED <<spawned, output, stderr_results, idx, paths,
                   output_paths, log_lines, inst_info, realize_calls, realized,
                   line, datum, mapVars>>

(* lines 84-116: one iteration of the fold *)
FoldStep ==
    /\ pc = "fold"
    /\ idx < Len(stderr_results)
    /\ LET acc == [tag |-> "Acc", paths |-> paths, output_paths |-> output_paths, log_lines |-> log_lines]
           new == FoldClosure(acc, stderr_results[idx + 1])
       IN  IF new.tag = "Panic"
           THEN /\ Abort(new)
                /\ UNCHANGED <<idx, paths, output_paths, log_lines>>
           ELSE /\ idx' = idx + 1
                /\ paths' = new.paths
                /\ output_paths' = new.output_paths
                /\ log_lines' = new.log_lines
                /\ UNCHANGED <<pc, gc_root_dir, outcome>>
    /\ UNCHANGED <<spawned, output, stderr_results, produced_drvs,
                   inst_info, realize_calls, realized, line, datum, mapVars>>

(* faulty variant: a failing status is reported as the typed error, not as Info::Failure *)
CheckStatusAsError ==
    /\ pc = "fold"
    /\ idx = Len(stderr_results)
    /\ IF ~StatusSuccess(output.v.status)
       THEN /\ Abort(Err("Instantiate"))
       ELSE /\ pc' = "status_ok"
            /\ UNCHANGED <<outcome, gc_root_dir>>
    /\ UNCHANGED <<spawned, output, stderr_results, produced_drvs, idx, paths,
                   output_paths, log_lines, inst_info, realize_calls, realized,
                   line, datum, mapVars>>

(* lines 118-123: a failing status returns Ok(Info::Failure(..)) *)
CheckStatus ==
    /\ pc = "fold"
    /\ idx = Len(stderr_results)
    /\ IF ~StatusSuccess(output.v.status)
       THEN /\ inst_info' = Failure(output.v.status, log_lines)
            /\ pc' = "inst_returned"
            /\ gc_root_dir' = "released"
       ELSE /\ pc' = "status_ok"
            /\ UNCHANGED <<inst_info, gc_root_dir>>
    /\ UNCHANGED <<spawned, output, stderr_results, produced_drvs, idx, paths,
                   output_paths, log_lines, realize_calls, realized, outcome,
                   line, datum, mapVars>>

(* faulty variant: the temporary directory is dropped when phase 1 returns Success *)
CheckOutputPathsDropRoot ==
    /\ pc = "status_ok"
    /\ LET op == RequiredOutputPaths(output_paths) IN
         IF op.tag = "Panic"
         THEN /\ Abort(op)
              /\ UNCHANGED inst_info
         ELSE /\ inst_info' = Success(op, [paths |-> produced_drvs, root |-> "phase1"], paths)
              /\ pc' = "inst_returned"
              /\ gc_root_dir' = "released"
              /\ UNCHANGED outcome
    /\ UNCHANGED <<spawned, output, stderr_results, produced_drvs, idx, paths,
                   output_paths, log_lines, realize_calls, realized, line, datum, mapVars>>

(* lines 125-153: both outputs are required, then Ok(Info::Success(..)) *)
CheckOutputPaths ==
    /\ pc = "status_ok"
    /\ LET op == RequiredOutputPaths(output_paths) IN
         IF op.tag = "Panic"
         THEN /\ Abort(op)
              /\ UNCHANGED inst_info
         ELSE /\ inst_info' = Success(op, [paths |-> produced_drvs, root |-> "phase1"], paths)
              /\ pc' = "inst_returned"
              /\ UNCHANGED <<gc_root_dir, outcome>>
    /\ UNCHANGED <<spawned, output, stderr_results, produced_drvs, idx, paths,
                   output_paths, log_lines, realize_calls, realized, line, datum, mapVars>>

(* line 178: Info::Failure(f) => Ok(Info::Failure(f)) *)
RunFailure ==
    /\ pc = "inst_returned"
    /\ inst_info.tag = "Failure"
    /\ outcome' = Ok(inst_info)
    /\ pc' = "done"
    /\ UNCHANGED <<gc_root_dir, spawned, output, stderr_results, produced_drvs, idx,
                   paths, output_paths, log_lines, inst_info, realize_calls,
                   realized, line, datum, mapVars>>

(* faulty variant: the shell derivation is realized instead of shell_gc_root *)
RealizeArgShell(s) == s.output_paths.shell.path

(* line 168: the path handed to ::nix::CallOpts::file *)
RealizeArg(s) == s.output_paths.shell_gc_root.path

(* faulty variant: a failed realization is converted to the Instantiate error *)
RealizeErrAsInstantiate ==
    /\ pc = "inst_returned"
    /\ inst_info.tag = "Success"
    /\ realize_calls' = Append(realize_calls, RealizeArg(inst_info))
    /\ \/ /\ \E p \in RealizedPaths :
               realized' = Some([path |-> StorePath(p), root |-> "phase2"])
          /\ pc' = "realized"
          /\ UNCHANGED <<gc_root_dir, outcome>>
       \/ /\ Abort(Err("Instantiate"))
          /\ UNCHANGED realized
    /\ UNCHANGED <<spawned, output, stderr_results, produced_drvs, idx, paths,
                   output_paths, log_lines, inst_info, line, datum, mapVars>>

(* lines 164-168: ::nix::CallOpts::file(drvs.shell_gc_root.as_path()).path()? *)
Realize ==
    /\ pc = "inst_returned"
    /\ inst_info.tag = "Success"
    /\ realize_calls' = Append(realize_calls, RealizeArg(inst_info))
    /\ \/ /\ \E p \in RealizedPaths :
               realized' = Some([path |-> StorePath(p), root |-> "phase2"])
          /\ pc' = "realized"
          /\ UNCHANGED <<gc_root_dir, outcome>>
       \/ /\ Abort(Err("Build"))
          /\ UNCHANGED realized
    /\ UNCHANGED <<spawned, output, stderr_results, produced_drvs, idx, paths,
                   output_paths, log_lines, inst_info, line, datum, mapVars>>

(* faulty variant: the final Success keeps the phase-1 output_paths *)
RunSuccessKeepOutputPaths ==
    /\ pc = "realized"
    /\ outcome' = Ok(Success(inst_info.output_paths,
                             [paths |-> <<realized.v.path>>, root |-> realized.v.root],
                             inst_info.paths))
    /\ pc' = "done"
    /\ gc_root_dir' = "released"
    /\ UNCHANGED <<spawned, output, stderr_results, produced_drvs, idx, paths,
                   output_paths, log_lines, inst_info, realize_calls, realized,
                   line, datum, mapVars>>

(* lines 169-176: the final Success; s, and with it the phase-1 root, is dropped *)
RunSuccess ==
    /\ pc = "realized"
    /\ outcome' = Ok(Success(realized.v.path,
                             [paths |-> <<realized.v.path>>, root |-> realized.v.root],
                             inst_info.paths))
    /\ pc' = "done"
    /\ gc_root_dir' = "released"
    /\ UNCHANGED <<spawned, output, stderr_results, produced_drvs, idx, paths,
                   output_paths, log_lines, inst_info, realize_calls, realized,
                   line, datum, mapVars>>

Next ==
    \/ CasFileFromString
    \/ TempDirNew
    \/ Spawn
    \/ WaitWithOutput
    \/ ParseStderr
    \/ ParseStdout
    \/ FoldStep
    \/ CheckStatus
    \/ CheckOutputPaths
    \/ RunFailure
    \/ Realize
    \/ RunSuccess

Spec == Init /\ [][Next]_vars

---------------------------------------------------------------------------
(* The classifier on its own: one line in, one LogDatum (or the panic) out *)

AttrNames == {"shell", "shell_gc_root", "other", "", "shell_gc", "Shell",
              "shell' -> '/nix/store/a.drv"}
AttrPaths == {"/nix/store/a.drv", "/nix/store/", "/tmp/a.drv",
              "/nix/store/a' -> '/nix/store/b.drv", "/tmp/b' -> '/nix/store/c.drv"}
SrcPaths == {"/a", "", "/it's", "/a' -> '/b", "'"}
CopyTargets == {"/nix/store/q", "", "q' -> 'r", " -> 'x"}

AttrLine(n, p) == "trace: lorri attribute: '" \o n \o "' -> '" \o p \o "'"
EvalLine(p) == "evaluating file '" \o p \o "'"
CopiedLine(p, q) == "copied source '" \o p \o "' -> '" \o q \o "'"
ReadLine(p) == "trace: lorri read: '" \o p \o "'"

OtherTexts == {"", "error: boom", "evaluating file '/a' ", " evaluating file '/a'",
               "evaluating file /a", "copied source '/a'", "trace: lorri read: /a",
               "trace: lorri attribute: 'shell' -> /nix/store/a.drv",
               "downloading 'https://static.rust-lang.org/dist/channel-rust-stable.toml'..."}

PatternTexts ==
    { AttrLine(n, p) : n \in AttrNames, p \in AttrPaths }
        \cup { EvalLine(p) : p \in SrcPaths }
        \cup { CopiedLine(p, q) : p \in SrcPaths, q \in CopyTargets }
        \cup { ReadLine(p) : p \in SrcPaths }

ClassifierLines ==
    { Utf8(s) : s \in PatternTexts \cup OtherTexts }
        \cup { NonUtf8(s) : s \in {EvalLine("/a"), AttrLine("other", "/nix/store/a.drv"),
                                   "error: boom"} }

(* accumulators the fold can hold when it meets the line: the slots both *)
(* empty or both populated, the transcript empty or not                  *)
ClassifySlots ==
    { OutputPaths(None, None),
      OutputPaths(Some(DrvFile("/nix/store/s0.drv")), Some(DrvFile("/nix/store/g0.drv"))) }
ClassifyLogLines == { <<>>, <<Utf8("earlier")>> }

InitClassify ==
    /\ Init!1 /\ Init!2 /\ Init!3 /\ Init!4 /\ Init!5 /\ Init!6 /\ Init!7
    /\ Init!8 /\ Init!11 /\ Init!12 /\ Init!13 /\ Init!14
    /\ output_paths \in ClassifySlots
    /\ log_lines \in ClassifyLogLines
    /\ line \in ClassifierLines
    /\ datum = NoDatum
    /\ MapIdle

(* one call of parse_evaluation_line *)
Classify ==
    /\ datum = NoDatum
    /\ datum' = parse_evaluation_line(line)
    /\ UNCHANGED <<line, runVars, mapVars>>

(* lines 86-115: the fold closure applied to the datum of the line *)
FoldDatum ==
    /\ datum # NoDatum
    /\ datum.tag # "Panic"
    /\ idx = 0
    /\ outcome = Running
    /\ LET acc == [tag |-> "Acc", paths |-> paths, output_paths |-> output_paths, log_lines |-> log_lines]
           new == FoldClosure(acc, datum)
       IN  IF new.tag = "Panic"
           THEN /\ outcome' = new
                /\ UNCHANGED <<idx, paths, output_paths, log_lines>>
           ELSE /\ idx' = idx + 1
                /\ paths' = new.paths
                /\ output_paths' = new.output_paths
                /\ log_lines' = new.log_lines
                /\ UNCHANGED outcome
    /\ UNCHANGED <<pc, gc_root_dir, spawned, output, stderr_results, produced_drvs,
                   inst_info, realize_calls, realized, line, datum, mapVars>>

NextClassify ==
    \/ Classify
    \/ FoldDatum

SpecClassify == InitClassify /\ [][NextClassify]_vars

---------------------------------------------------------------------------
(* impl<T> OutputPaths<T>: map, map_res and zip on their own *)

SlotValues == {"a", "b"}
Images == {"x", "y"}
MapErrors == {"e1", "e2"}
MapFunctions ==
    [SlotValues -> { Ok(u) : u \in Images } \cup { Err(e) : e \in MapErrors }]
MapSelves == { OutputPaths(a, b) : a, b \in SlotValues }
ZipArgs == { OutputPaths(c, d) : c, d \in {"c", "d"} }

(* lines 293-298: OutputPaths::map *)
map(s, g) == OutputPaths(g[s.shell], g[s.shell_gc_root])

(* lines 312-320: OutputPaths::zip *)
zip(s, us) == OutputPaths(<<s.shell, us.shell>>, <<s.shell_gc_root, us.shell_gc_root>>)

InitMapRes ==
    /\ Init!1 /\ Init!2 /\ Init!3 /\ Init!4 /\ Init!5 /\ Init!6 /\ Init!7
    /\ Init!8 /\ Init!9 /\ Init!10 /\ Init!11 /\ Init!12 /\ Init!13 /\ Init!14
    /\ Init!15 /\ Init!16
    /\ self \in MapSelves
    /\ f \in MapFunctions
    /\ method = "none"
    /\ calls = <<>>
    /\ shell_u = None
    /\ returned = NoResult

(* one call of map: f is applied to shell, then to shell_gc_root *)
Map ==
    /\ method = "none"
    /\ method' = "map"
    /\ calls' = <<self.shell, self.shell_gc_root>>
    /\ returned' = map(self, f)
    /\ UNCHANGED <<self, f, shell_u, line, datum, runVars>>

(* one call of zip *)
Zip ==
    /\ method = "none"
    /\ method' = "zip"
    /\ \E us \in ZipArgs : returned' = zip(self, us)
    /\ UNCHANGED <<self, f, calls, shell_u, line, datum, runVars>>

(* faulty variant: f is applied to both slots before the first result is looked at *)
MapResShellEager ==
    /\ method = "none"
    /\ method' = "map_res"
    /\ calls' = <<self.shell, self.shell_gc_root>>
    /\ IF f[self.shell].tag = "Err"
       THEN /\ returned' = f[self.shell]
            /\ UNCHANGED shell_u
       ELSE /\ shell_u' = Some(f[self.shell].info)
            /\ UNCHANGED returned
    /\ UNCHANGED <<self, f, line, datum, runVars>>

(* line 306: shell: f(self.shell)? *)
MapResShell ==
    /\ method = "none"
    /\ method' = "map_res"
    /\ calls' = Append(calls, self.shell)
    /\ IF f[self.shell].tag = "Err"
       THEN /\ returned' = f[self.shell]
            /\ UNCHANGED shell_u
       ELSE /\ shell_u' = Some(f[self.shell].info)
            /\ UNCHANGED returned
    /\ UNCHANGED <<self, f, line, datum, runVars>>

(* lines 305-308: shell_gc_root: f(self.shell_gc_root)?, then Ok(OutputPaths { .. }) *)
MapResGcRoot ==
    /\ method = "map_res"
    /\ shell_u # None
    /\ returned = NoResult
    /\ calls' = Append(calls, self.shell_gc_root)
    /\ returned' = IF f[self.shell_gc_root].tag = "Err"
                   THEN f[self.shell_gc_root]
                   ELSE Ok(OutputPaths(shell_u.v, f[self.shell_gc_root].info))
    /\ UNCHANGED <<self, f, method, shell_u, line, datum, runVars>>

NextMapRes ==
    \/ Map
    \/ Zip
    \/ MapResShell
    \/ MapResGcRoot

SpecMapRes == InitMapRes /\ [][NextMapRes]_vars

---------------------------------------------------------------------------
(* Vocabulary of the properties below *)

Done == pc = "done"
Exited == output # None
ReturnedFailure == Done /\ outcome.tag = "Ok" /\ outcome.info.tag = "Failure"
ReturnedSuccess == Done /\ outcome.tag = "Ok" /\ outcome.info.tag = "Success"

(* the events the captured stderr classifies to, and how many carry a tag *)
Events == ParseStderrLines(output.v.stderr)
CountTag(evs, tag) == Cardinality({ i \in 1..Len(evs) : evs[i].tag = tag })
IsSource(e) == e.tag = "Source"
IsText(e) == e.tag = "Text"
SourcePathsOf(evs) ==
    LET src == SelectSeq(evs, IsSource) IN [i \in 1..Len(src) |-> src[i].path]
TextLinesOf(evs) ==
    LET txt == SelectSeq(evs, IsText) IN [i \in 1..Len(txt) |-> txt[i].line]
PathOfTag(evs, tag) == evs[CHOOSE i \in 1..Len(evs) : evs[i].tag = tag].path

(* the captured streams trip none of the internal-consistency panics that *)
(* precede the status check                                               *)
StreamsWellFormed ==
    /\ NonEmptyLines(output.v.stdout) # <<>>
    /\ LET evs == Events
       IN  /\ CountTag(evs, "Panic") = 0
           /\ CountTag(evs, "ShellDrv") <= 1
           /\ CountTag(evs, "ShellGcRootDrv") <= 1

(* the fold has consumed every event of the captured stderr *)
Aggregated ==
    /\ Exited
    /\ pc \notin {"exited", "stderr_parsed"}
    /\ produced_drvs # <<>>
    /\ idx = Len(NonEmptyLines(output.v.stderr))
    /\ stderr_results = Events

---------------------------------------------------------------------------
\* C1 (as stated): whenever phase 1 was spawned and exited non-zero, whatever
\* stdout and stderr held, run ends with Ok(Failure) carrying that status.
C1_AnyStreams ==
    (Done /\ Exited /\ output.v.status # 0)
        => (ReturnedFailure /\ outcome.info.exec_result = output.v.status)

\* C1 (amended): whenever phase 1 was spawned and exited non-zero, stdout held
\* a store path, and stderr held no unknown attribute and no named output
\* twice, run ends with Ok(Failure) carrying that status, neither in a typed
\* error nor in a panic.
C1_FailureOnNonZeroExit ==
    (Done /\ Exited /\ output.v.status # 0 /\ StreamsWellFormed)
        => /\ spawned = 1
           /\ ReturnedFailure
           /\ outcome.info.exec_result = output.v.status

C1_Witness ==
    /\ ReturnedFailure
    /\ outcome.info.exec_result = 1
    /\ CountTag(Events, "ShellDrv") = 1
    /\ CountTag(Events, "Text") >= 1

\* C2: realize is called only once phase 1 has exited with status zero, its
\* stdout is decoded, its stderr is classified and folded to the end and both
\* named outputs are present; it is never called when phase 1 exited non-zero,
\* was never spawned, or the run panicked.
C2_RealizeOnlyAfterPhase1 ==
    /\ realize_calls # <<>> =>
          /\ Aggregated
          /\ output.v.status = 0
          /\ produced_drvs = ParseStdoutLines(output.v.stdout)
          /\ output_paths.shell # None
          /\ output_paths.shell_gc_root # None
          /\ LET evs == Events
             IN  /\ CountTag(evs, "ShellDrv") = 1
                 /\ CountTag(evs, "ShellGcRootDrv") = 1
    /\ (Exited /\ output.v.status # 0) => realize_calls = <<>>
    /\ spawned = 0 => realize_calls = <<>>
    /\ outcome.tag = "Panic" => realize_calls = <<>>

C2_Witness ==
    /\ realize_calls # <<>>
    /\ Len(output.v.stderr) >= 4
    /\ CountTag(Events, "Source") >= 1
    /\ CountTag(Events, "Text") >= 1

\* C3 (as stated): the transcript of a Failure holds every stderr line, the
\* classified ones included, in emission order.
C3_FullTranscript ==
    ReturnedFailure => outcome.info.log_lines = NonEmptyLines(output.v.stderr)

\* C3 (amended): the transcript of a Failure holds exactly the stderr lines
\* classified as opaque text (undecodable lines and lines matching no
\* pattern), in emission order; source-path and named-output lines are left
\* out, so it has as many entries as stderr had opaque text lines.
C3_TextOnlyTranscript ==
    ReturnedFailure =>
        LET evs == Events
        IN  /\ outcome.info.log_lines = TextLinesOf(evs)
            /\ Len(outcome.info.log_lines) = CountTag(evs, "Text")

C3_Witness ==
    /\ ReturnedFailure
    /\ Len(outcome.info.log_lines) = 2
    /\ outcome.info.log_lines[1] # outcome.info.log_lines[2]
    /\ CountTag(Events, "Source") >= 1
    /\ CountTag(Events, "ShellDrv") >= 1

\* C4 (as stated): a Failure carries the ordered list of source paths that the
\* fold gathered from stderr.
C4_FailureCarriesPaths ==
    (ReturnedFailure /\ paths # <<>>)
        => ("paths" \in DOMAIN outcome.info /\ outcome.info.paths = paths)

\* C5: once phase 1 has returned Success (status zero, both named outputs
\* found), realize is called exactly once, with the shell_gc_root path and not
\* the shell path; and if realize succeeds run returns Success whose paths are
\* the source paths of stderr in order, duplicates kept.
C5_RealizeGcRootOnce ==
    /\ (inst_info.tag = "Success" /\ pc \in {"realized", "done"}) =>
          LET evs == Events
          IN  /\ realize_calls = <<PathOfTag(evs, "ShellGcRootDrv")>>
              /\ \A i \in 1..Len(realize_calls) :
                    realize_calls[i] # PathOfTag(evs, "ShellDrv")
    /\ (inst_info.tag = "Success" /\ pc = "inst_returned") => realize_calls = <<>>
    /\ (Done /\ inst_info.tag = "Success" /\ realized # None) =>
          /\ ReturnedSuccess
          /\ outcome.info.paths = SourcePathsOf(Events)

C5_Witness ==
    /\ ReturnedSuccess
    /\ realize_calls = <<"/nix/store/g.drv">>
    /\ outcome.info.paths = <<"/a", "/a">>


\* C6 (as stated): the Success that run returns holds a two-slot named-outputs
\* structure (shell, shell_gc_root) beside the realized path.
C6_TwoSlotSuccess ==
    ReturnedSuccess =>
        /\ outcome.info.output_paths.tag = "OutputPaths"
        /\ outcome.info.output_paths.shell_gc_root = realized.v.path

\* C6 (amended): the Success that run returns holds the realized path twice,
\* as output_paths (one StorePath, no two-slot structure) and as the only
\* element of drvs, together with the root token realize returned and the
\* source paths of stderr in order; the two phase-1 named output paths are not
\* part of it.
C6_RealizedSuccess ==
    ReturnedSuccess =>
        /\ realized # None
        /\ outcome.info.output_paths = realized.v.path
        /\ outcome.info.output_paths.tag = "StorePath"
        /\ outcome.info.drvs = [paths |-> <<realized.v.path>>, root |-> realized.v.root]
        /\ LET evs == Events
           IN  /\ outcome.info.paths = SourcePathsOf(evs)
               /\ outcome.info.output_paths.path \notin
                     {PathOfTag(evs, "ShellDrv"), PathOfTag(evs, "ShellGcRootDrv")}

C6_Witness ==
    /\ ReturnedSuccess
    /\ outcome.info.output_paths = StorePath("/nix/store/out")
    /\ outcome.info.paths = <<"/b", "/a">>
    /\ inst_info.output_paths = OutputPaths(DrvFile("/nix/store/t.drv"), DrvFile("/nix/store/g.drv"))

\* C7: when phase 1 exited zero and the classified stderr lacks the shell or
\* the shell_gc_root output, run ends in a panic (no Ok, no Err) and realize is
\* not called; once the fold is through, that panic is the missing-output one.
\* When phase 1 exited non-zero, a missing output is not fatal: run returns
\* the Failure.
C7_MissingOutputFatal ==
    (Done /\ Exited) =>
        LET evs == Events
            lacksShell == CountTag(evs, "ShellDrv") = 0
            lacksGcRoot == CountTag(evs, "ShellGcRootDrv") = 0
        IN  /\ (output.v.status = 0 /\ CountTag(evs, "Panic") = 0
                  /\ (lacksShell \/ lacksGcRoot)) =>
                  /\ outcome.tag = "Panic"
                  /\ realize_calls = <<>>
                  /\ Aggregated =>
                        outcome = IF lacksShell THEN Panic("never got shell")
                                  ELSE Panic("never got shell_gc_root")
            /\ (output.v.status # 0 /\ StreamsWellFormed
                  /\ (lacksShell \/ lacksGcRoot)) =>
                  ReturnedFailure

C7_Witness ==
    /\ Done
    /\ Exited
    /\ output.v.status = 0
    /\ CountTag(Events, "ShellDrv") = 1
    /\ CountTag(Events, "Source") >= 1
    /\ outcome = Panic("never got shell_gc_root")

\* C8: in every step of the fold a populated named-output slot keeps its
\* value, and a step that meets an event for a populated slot (same path or
\* not, whatever the exit status) ends the run in the second-assignment panic;
\* so every run that reaches the fold with two shell lines or two
\* shell_gc_root lines in stderr ends in that panic.
C8_SetOnceSlots ==
    /\ [][ /\ output_paths.shell # None => output_paths'.shell = output_paths.shell
           /\ output_paths.shell_gc_root # None =>
                 output_paths'.shell_gc_root = output_paths.shell_gc_root
           /\ (pc = "fold" /\ idx < Len(stderr_results)
                 /\ stderr_results[idx + 1].tag = "ShellDrv"
                 /\ output_paths.shell # None) =>
                 (pc' = "done" /\ outcome' = Panic("shell a second time"))
           /\ (pc = "fold" /\ idx < Len(stderr_results)
                 /\ stderr_results[idx + 1].tag = "ShellGcRootDrv"
                 /\ output_paths.shell_gc_root # None) =>
                 (pc' = "done" /\ outcome' = Panic("shell_gc_root a second time"))
         ]_vars
    /\ []( (Done /\ Exited /\ NonEmptyLines(output.v.stdout) # <<>>) =>
             LET evs == Events
             IN  (/\ CountTag(evs, "Panic") = 0
                  /\ \/ CountTag(evs, "ShellDrv") >= 2
                     \/ CountTag(evs, "ShellGcRootDrv") >= 2)
                     => outcome \in {Panic("shell a second time"),
                                     Panic("shell_gc_root a second time")} )

C8_Witness ==
    /\ Done
    /\ outcome = Panic("shell a second time")
    /\ output.v.status # 0
    /\ output_paths.shell = Some(DrvFile("/nix/store/s.drv"))
    /\ stderr_results[idx + 1] = ShellDrv("/nix/store/t.drv")

\* C9: folding a stderr stream with exactly one shell line, exactly one
\* shell_gc_root line and N source-path lines, interleaved in any way with
\* each other and with text lines, leaves both slots holding the paths of
\* those two lines and paths holding the N source paths in stream order,
\* duplicates kept.
C9_AggregateOneOfEach ==
    Aggregated =>
        LET evs == Events IN
        (CountTag(evs, "Panic") = 0
           /\ CountTag(evs, "ShellDrv") = 1
           /\ CountTag(evs, "ShellGcRootDrv") = 1) =>
            /\ output_paths = OutputPaths(Some(DrvFile(PathOfTag(evs, "ShellDrv"))),
                                          Some(DrvFile(PathOfTag(evs, "ShellGcRootDrv"))))
            /\ Len(paths) = CountTag(evs, "Source")
            /\ paths = SourcePathsOf(evs)

C9_Witness ==
    /\ Aggregated
    /\ output_paths = OutputPaths(Some(DrvFile("/nix/store/s.drv")), Some(DrvFile("/nix/store/g.drv")))
    /\ paths = <<"/a", "/a">>
    /\ output.v.stderr[1] = GcRootG
    /\ output.v.stderr[4] = ShellS


\* C10 (as stated): a decodable attribute-trace line whose name is neither
\* shell nor shell_gc_root ends classification in the unknown-attribute panic,
\* whatever stands in the place of the store path.
C10_UnknownAttributeAnyPath ==
    \A n \in AttrNames \ {"shell", "shell_gc_root"}, p \in AttrPaths :
        (line = Utf8(AttrLine(n, p)) /\ datum # NoDatum)
            => datum = Panic("unknown attribute")

\* C10 (amended): a decodable attribute-trace line whose name is neither shell
\* nor shell_gc_root and whose path begins with /nix/store/ ends
\* classification in the unknown-attribute panic, whatever follows that
\* prefix; it is never returned as a text line or another event.
C10_UnknownAttributeFatal ==
    \A n \in AttrNames \ {"shell", "shell_gc_root"}, p \in AttrPaths :
        (line = Utf8(AttrLine(n, p)) /\ datum # NoDatum /\ StartsWith(p, "/nix/store/"))
            => datum = Panic("unknown attribute")

C10_Witness ==
    /\ line = Utf8(AttrLine("shell_gc", "/nix/store/a' -> '/nix/store/b.drv"))
    /\ datum = Panic("unknown attribute")


(* s holds sub as a substring *)
Contains(s, sub) ==
    \E i \in 1..(Len(s) - Len(sub) + 1) : SubSeq(s, i, i + Len(sub) - 1) = sub

\* C11 (as stated): every decodable line evaluating file '<p>', copied source
\* '<p>' -> '<q>' or trace: lorri read: '<p>' classifies to Source(<p>), for
\* every <p> and <q>; and an attribute line naming shell with a path under
\* /nix/store/ classifies to ShellDrv carrying the path verbatim.
C11_AnySourceLine ==
    datum # NoDatum =>
        /\ \A p \in SrcPaths :
              /\ line = Utf8(EvalLine(p)) => datum = Source(p)
              /\ line = Utf8(ReadLine(p)) => datum = Source(p)
              /\ \A q \in CopyTargets :
                    line = Utf8(CopiedLine(p, q)) => datum = Source(p)
        /\ \A sp \in AttrPaths :
              (line = Utf8(AttrLine("shell", sp)) /\ StartsWith(sp, "/nix/store/"))
                  => datum = ShellDrv(sp)

\* C11 (amended): every decodable line evaluating file '<p>' or trace: lorri
\* read: '<p>' classifies to Source(<p>) for every <p>, quotes and arrows
\* included; copied source '<p>' -> '<q>' classifies to Source(<p>) for every
\* <p> and every <q> that neither contains ' -> ' (with its quotes) nor begins
\* with  -> ' ; and an attribute line naming shell classifies to ShellDrv
\* carrying the path verbatim when the path begins with /nix/store/ and does
\* not contain ' -> '/nix/store/ .
C11_SourceLines ==
    datum # NoDatum =>
        /\ \A p \in SrcPaths :
              /\ line = Utf8(EvalLine(p)) => datum = Source(p)
              /\ line = Utf8(ReadLine(p)) => datum = Source(p)
              /\ \A q \in CopyTargets :
                    (line = Utf8(CopiedLine(p, q))
                       /\ ~Contains(q, "' -> '") /\ ~StartsWith(q, " -> '"))
                        => datum = Source(p)
        /\ \A sp \in AttrPaths :
              (line = Utf8(AttrLine("shell", sp))
                 /\ StartsWith(sp, "/nix/store/") /\ ~Contains(sp, "' -> '/nix/store/"))
                  => datum = ShellDrv(sp)

C11_Witness ==
    /\ line = Utf8(CopiedLine("/a' -> '/b", "/nix/store/q"))
    /\ datum = Source("/a' -> '/b")


\* C12: a line that is not valid text, and a valid-text line that matches
\* none of the four patterns, classify to one Text event whose payload is the
\* input line itself, bytes and validity unchanged.
C12_OpaqueTextVerbatim ==
    datum # NoDatum =>
        /\ ~line.utf8 => datum = [tag |-> "Text", line |-> line]
        /\ \A s \in OtherTexts :
              line = Utf8(s) => datum = [tag |-> "Text", line |-> Utf8(s)]
        /\ (/\ line.utf8
            /\ EVAL_FILE(line.bytes) = None
            /\ COPIED_SOURCE(line.bytes) = None
            /\ LORRI_READ(line.bytes) = None
            /\ LORRI_ATTR_DRV(line.bytes) = None)
              => datum = [tag |-> "Text", line |-> line]

C12_Witness ==
    /\ line = NonUtf8(EvalLine("/a"))
    /\ datum = [tag |-> "Text", line |-> NonUtf8(EvalLine("/a"))]


\* C13: when run has ended and the temporary directory was made but no
\* subprocess output was ever collected (spawning or collecting failed), the
\* outcome is Err(Instantiate); when realization was called and did not
\* return a path, the outcome is Err(Build); and an Err outcome arises in no
\* other way: Instantiate only before any output, Build only after a phase-1
\* Success and a failed realization.
C13_TypedErrors ==
    /\ (Done /\ gc_root_dir = "released" /\ output = None)
          => outcome = Err("Instantiate")
    /\ (Done /\ realize_calls # <<>> /\ realized = None)
          => outcome = Err("Build")
    /\ outcome.tag = "Err" =>
          \/ /\ outcome.error = "Instantiate"
             /\ output = None
             /\ realize_calls = <<>>
          \/ /\ outcome.error = "Build"
             /\ inst_info.tag = "Success"
             /\ Len(realize_calls) = 1
             /\ realized = None

C13_Witness ==
    /\ Done
    /\ inst_info.tag = "Success"
    /\ realize_calls # <<>>
    /\ realized = None
    /\ outcome = Err("Build")

\* C14: when the phase-1 subprocess has exited and its stdout holds no
\* non-empty line, run ends in a panic, on exit status 0 and on a failing
\* status alike, never in Ok(Failure), Ok(Success) or Err; the panic is the
\* one of lines 68-75 unless an unknown attribute on stderr panicked first.
C14_NoStorePathFatal ==
    (Done /\ Exited /\ NonEmptyLines(output.v.stdout) = <<>>) =>
        /\ outcome.tag = "Panic"
        /\ outcome.what \in {"no store path in output", "unknown attribute"}
        /\ FirstPanic(Events) = None => outcome = Panic("no store path in output")

C14_Witness ==
    /\ Done
    /\ Exited
    /\ output.v.status = 1
    /\ output.v.stdout = <<Utf8("")>>
    /\ outcome = Panic("no store path in output")


\* C15: in every state the subprocess has been spawned at most once and
\* realization has been called at most once; and once run has an outcome
\* (a typed error, a panic, or a returned Info), or phase 1 has returned
\* Info::Failure, no step spawns a subprocess or calls realization.
C15_NoRetry ==
    /\ [](spawned <= 1 /\ Len(realize_calls) <= 1)
    /\ [][(outcome # Running \/ inst_info.tag = "Failure")
             => (spawned' = spawned /\ realize_calls' = realize_calls)]_vars

C15_Witness ==
    /\ Done
    /\ spawned = 1
    /\ output = None
    /\ outcome = Err("Instantiate")


\* C16: map_res applies f to the shell slot first; when that fails f is not
\* applied to shell_gc_root and the shell error is the result; when shell
\* succeeds and shell_gc_root fails, that error is the result; when both
\* succeed, each slot of the result holds the image of the same slot of the
\* input.  map and zip keep the slots in place as well.
C16_MapResShortCircuit ==
    /\ method = "map_res" =>
          LET rs == f[self.shell]
              rg == f[self.shell_gc_root]
          IN  /\ calls[1] = self.shell
              /\ returned = NoResult => (rs.tag = "Ok" /\ calls = <<self.shell>>)
              /\ rs.tag = "Err" => (calls = <<self.shell>> /\ returned = rs)
              /\ (returned # NoResult /\ rs.tag = "Ok") =>
                    /\ calls = <<self.shell, self.shell_gc_root>>
                    /\ rg.tag = "Err" => returned = rg
                    /\ rg.tag = "Ok" =>
                          returned = [tag |-> "Ok",
                                      info |-> [tag |-> "OutputPaths",
                                                shell |-> rs.info,
                                                shell_gc_root |-> rg.info]]
    /\ method = "map" =>
          /\ returned.shell = f[self.shell]
          /\ returned.shell_gc_root = f[self.shell_gc_root]
    /\ method = "zip" =>
          /\ returned.shell[1] = self.shell
          /\ returned.shell_gc_root[1] = self.shell_gc_root
          /\ \E us \in ZipArgs : /\ returned.shell[2] = us.shell
                                 /\ returned.shell_gc_root[2] = us.shell_gc_root

C16_Witness ==
    /\ method = "map_res"
    /\ self = OutputPaths("a", "b")
    /\ f["a"] = Err("e1")
    /\ f["b"] = Ok("x")
    /\ calls = <<"a">>
    /\ returned = Err("e1")


\* C17: the temporary directory made at line 36 is alive in every state from
\* its creation up to and including the state in which the realize call has
\* returned; in every state after run has ended (Success, Failure, typed
\* error or panic) it is not alive any more; and the root carried by the
\* final Success is the one the realize call returned, not the phase-1
\* directory.
C17_GcRootLifetime ==
    /\ pc \in {"tmp_done", "spawned", "exited", "stderr_parsed", "fold",
               "status_ok", "realized"} => gc_root_dir = "alive"
    /\ (pc = "inst_returned" /\ inst_info.tag = "Success") => gc_root_dir = "alive"
    /\ (realize_calls # <<>> /\ ~Done) => gc_root_dir = "alive"
    /\ Done => gc_root_dir \in {"none", "released"}
    /\ (Done /\ spawned > 0) => gc_root_dir = "released"
    /\ ReturnedSuccess => outcome.info.drvs.root = "phase2"

C17_Witness ==
    /\ pc = "realized"
    /\ realized # None
    /\ gc_root_dir = "alive"


(* how many of the two slots of an OutputPaths<Option<_>> are populated *)
PopulatedSlots(op) ==
    (IF op.shell = None THEN 0 ELSE 1) + (IF op.shell_gc_root = None THEN 0 ELSE 1)

\* C18: in every state the fold reaches without a panic, every consumed event
\* went to exactly one accumulator: Len(paths) + Len(log_lines) + the number
\* of populated slots = the number of events consumed; paths is the sequence
\* of the Source paths among the consumed events and log_lines the sequence
\* of the Text lines among them, both in input order.
C18_FoldConservation ==
    outcome.tag # "Panic" =>
        /\ Len(paths) + Len(log_lines) + PopulatedSlots(output_paths) = idx
        /\ idx <= Len(stderr_results)
        /\ LET consumed == SubSeq(stderr_results, 1, idx)
           IN  /\ paths = SourcePathsOf(consumed)
               /\ log_lines = TextLinesOf(consumed)

C18_Witness ==
    /\ pc = "fold"
    /\ idx = 4
    /\ Len(paths) = 1
    /\ Len(log_lines) = 1
    /\ PopulatedSlots(output_paths) = 2


\* C19 (as stated): a line trace: lorri attribute: '<n>' -> '<p>' classifies to
\* a slot event or to the unknown-attribute panic only when <p> begins with
\* /nix/store/; when <p> has any other prefix the line classifies to Text
\* whatever <n> is, and the fold step for it leaves paths and both slots as
\* they were and appends the line to log_lines.
C19_NonStoreAttrAnyName ==
    /\ [](\A n \in AttrNames, p \in AttrPaths :
             (line = Utf8(AttrLine(n, p)) /\ datum # NoDatum) =>
                 /\ datum.tag \in {"ShellDrv", "ShellGcRootDrv", "Panic"}
                       => StartsWith(p, "/nix/store/")
                 /\ ~StartsWith(p, "/nix/store/")
                       => datum = [tag |-> "Text", line |-> line])
    /\ [][\A n \in AttrNames, p \in AttrPaths :
             (/\ line = Utf8(AttrLine(n, p))
              /\ ~StartsWith(p, "/nix/store/")
              /\ datum # NoDatum
              /\ datum' = datum)
                 => /\ output_paths' = output_paths
                    /\ paths' = paths
                    /\ outcome' = outcome
                    /\ log_lines' = Append(log_lines, line)]_vars

\* C19 (amended): the same, for the lines in which the text ' -> '/nix/store/
\* occurs nowhere in <n>' -> '<p>: such a line, whose path then does not begin
\* with /nix/store/, classifies to Text whatever <n> is, and the fold step
\* for it leaves paths and both slots as they were and appends the line to
\* log_lines; a line of this form classifies to a slot event or to the
\* unknown-attribute panic only when that text occurs in <n>' -> '<p>.
C19_NonStoreAttrIsText ==
    /\ [](\A n \in AttrNames, p \in AttrPaths :
             (line = Utf8(AttrLine(n, p)) /\ datum # NoDatum) =>
                 /\ datum.tag \in {"ShellDrv", "ShellGcRootDrv", "Panic"}
                       => Contains(n \o "' -> '" \o p, "' -> '/nix/store/")
                 /\ ~Contains(n \o "' -> '" \o p, "' -> '/nix/store/")
                       => datum = [tag |-> "Text", line |-> line])
    /\ [][\A n \in AttrNames, p \in AttrPaths :
             (/\ line = Utf8(AttrLine(n, p))
              /\ ~Contains(n \o "' -> '" \o p, "' -> '/nix/store/")
              /\ datum # NoDatum
              /\ datum' = datum)
                 => /\ output_paths' = output_paths
                    /\ paths' = paths
                    /\ outcome' = outcome
                    /\ log_lines' = Append(log_lines, line)]_vars

C19_Witness ==
    /\ line = Utf8(AttrLine("shell", "/tmp/a.drv"))
    /\ datum = [tag |-> "Text", line |-> Utf8(AttrLine("shell", "/tmp/a.drv"))]
    /\ idx = 1
    /\ output_paths = OutputPaths(None, None)
    /\ log_lines = <<Utf8("earlier"), Utf8(AttrLine("shell", "/tmp/a.drv"))>>

=============================================================================
